---- MODULE Spec2Model ----
(***************************************************************************)
(* FloodlightVisualizer (src/visualize2.py): the topology graph built from *)
(* the controller's link and device feeds, node classification, the        *)
(* switch adjacency index, shortest-path enumeration and the bandwidth     *)
(* cost selection.                                                         *)
(*                                                                         *)
(* Strings that the code takes apart (labels, DPIDs, IPs, MACs) are        *)
(* sequences of one-character strings, so that "s" + dpid, startswith and  *)
(* label[1:] are computed as Python computes them.  Opaque values (ports,  *)
(* types, link attributes) are plain strings; "None" is Python's None.     *)
(***************************************************************************)
EXTENDS Naturals, Sequences, FiniteSets, TLC

VARIABLES cfg, topology, hist, ret

vars == <<cfg, topology, hist, ret>>

\* ------------------------------------------------------------------ bounds

\* Number of mutating calls (add_switch_links, add_hosts, classify_nodes,
\* build_topology) in one behaviour of Spec.
MaxCalls == 2

\* ----------------------------------------------------------------- strings

None == "None"

\* A key that a dict does not hold.
Absent == "<absent>"

EmptyFn == [x \in {} |-> x]

Range(s) == {s[i] : i \in DOMAIN s}

\* str.startswith
StartsWith(s, p) == Len(s) >= Len(p) /\ SubSeq(s, 1, Len(p)) = p

\* s[1:]
StripFirst(s) == SubSeq(s, 2, Len(s))

\* ------------------------------------------------------ networkx.Graph

\* nx.Graph(): nodes in insertion order, each node's attribute "type",
\* each node's neighbours in insertion order, one attribute dict per
\* unordered pair of nodes.
EmptyGraph ==
    [nodes |-> <<>>, type |-> EmptyFn, adj |-> EmptyFn, attr |-> EmptyFn]

NodeSet(G) == Range(G.nodes)

EdgeSet(G) == DOMAIN G.attr

NoAttrs ==
    [src_port |-> Absent, dst_port |-> Absent, link_type |-> Absent,
     direction |-> Absent, port |-> Absent]

\* dict.update: the keys given overwrite, the others stay.
UpdateAttrs(old, new) ==
    [k \in DOMAIN old |-> IF new[k] # Absent THEN new[k] ELSE old[k]]

\* dict.get(key): None for a key the dict does not hold.
Get(d, k) == IF d[k] = Absent THEN None ELSE d[k]

\* A variant of add_node that inserts the node again when it is present.
AddNodeAlwaysAppend(G, n, t) ==
    [G EXCEPT !.nodes = Append(@, n),
              !.type = (n :> t) @@ @,
              !.adj = (n :> <<>>) @@ @]

\* Graph.add_node(n, type=t): a new node is appended; a node already in
\* the graph has its attribute dict updated, so its type is overwritten.
AddNode(G, n, t) ==
    IF n \in NodeSet(G)
    THEN [G EXCEPT !.type[n] = t]
    ELSE [G EXCEPT !.nodes = Append(@, n),
                   !.type = @ @@ (n :> t),
                   !.adj = @ @@ (n :> <<>>)]

\* Graph.add_edge(u, v, **attrs): endpoints not in the graph are created
\* without attributes; each endpoint gains the other as a neighbour once;
\* the pair's attribute dict is updated with attrs.
EnsureNode(G, n) ==
    IF n \in NodeSet(G)
    THEN G
    ELSE [G EXCEPT !.nodes = Append(@, n),
                   !.type = @ @@ (n :> Absent),
                   !.adj = @ @@ (n :> <<>>)]

AddNbr(G, u, v) ==
    IF v \in Range(G.adj[u]) THEN G ELSE [G EXCEPT !.adj[u] = Append(@, v)]

AddEdge(G, u, v, attrs) ==
    LET G1 == EnsureNode(EnsureNode(G, u), v)
        G2 == AddNbr(AddNbr(G1, u, v), v, u)
        e == {u, v}
        old == IF e \in DOMAIN G2.attr THEN G2.attr[e] ELSE NoAttrs
    IN [G2 EXCEPT !.attr = (e :> UpdateAttrs(old, attrs)) @@ @]

\* Graph.edges(data=True): nodes in insertion order, each node's
\* neighbours in insertion order, a pair reported once, from the endpoint
\* that comes first in node order.
EdgesFrom(G, i) ==
    LET n == G.nodes[i]
        seen == {G.nodes[j] : j \in 1 .. (i - 1)}
    IN SelectSeq(G.adj[n], LAMBDA nbr : nbr \notin seen)

RECURSIVE EdgesUpTo(_, _)
EdgesUpTo(G, i) ==
    IF i = 0
    THEN <<>>
    ELSE LET n == G.nodes[i]
             mine == EdgesFrom(G, i)
         IN EdgesUpTo(G, i - 1) \o [k \in 1 .. Len(mine) |-> <<n, mine[k]>>]

Edges(G) == EdgesUpTo(G, Len(G.nodes))

\* ------------------------------------------------ FloodlightVisualizer

\* remap_dpid: the mapped label, or "s" + dpid.
RemapDpid(c, dpid) ==
    IF dpid \in DOMAIN c.dpid_map THEN c.dpid_map[dpid] ELSE <<"s">> \o dpid

\* One pass of add_switch_links' loop.  A link record is
\* [src, dst, sport, dport, ltype, dir]; src or dst is <<>> when the
\* record has no "src-switch" / "dst-switch" (link.get(..., "")), sport
\* or dport is None when the record has no "src-port" / "dst-port".
IngestLink(G, c, link) ==
    IF link.src = <<>> \/ link.dst = <<>>
    THEN G
    ELSE LET src_label == RemapDpid(c, link.src)
             dst_label == RemapDpid(c, link.dst)
             G1 == AddNode(AddNode(G, src_label, "switch"), dst_label, "switch")
         IN AddEdge(G1, src_label, dst_label,
                    [NoAttrs EXCEPT !.src_port = link.sport,
                                    !.dst_port = link.dport,
                                    !.link_type = link.ltype,
                                    !.direction = link.dir])

\* add_switch_links' loop: Gs holds the graph before the first record and
\* after each record ingested so far.
RECURSIVE IngestLinks(_, _, _)
IngestLinks(Gs, c, links) ==
    IF Len(Gs) > Len(links)
    THEN Gs[Len(Gs)]
    ELSE IngestLinks(Append(Gs, IngestLink(Gs[Len(Gs)], c, links[Len(Gs)])),
                     c, links)

\* add_switch_links.  The feed is what fetch_json returned: shape
\* "none" (None, a failed fetch), "list" (a JSON array, items) or
\* "other" (any other JSON value).
AddSwitchLinksOp(G, c, feed) ==
    IF feed.shape # "list" \/ feed.items = <<>>
    THEN G
    ELSE IngestLinks(<<G>>, c, feed.items)

\* mac_list of a device record: a bare string is wrapped in a list.
MacList(dev) == IF dev.mac.isStr THEN <<dev.mac.str>> ELSE dev.mac.list

\* A variant of the chain that looks in docker_hosts_map first.
HostIdentityDockerFirst(c, dev) ==
    LET mac_list == MacList(dev)
        hasIp == dev.ipv4 # <<>>
        ip == IF hasIp THEN dev.ipv4[1] ELSE <<>>
    IN IF hasIp /\ ip # <<>> /\ ip \in DOMAIN c.docker_hosts_map
       THEN [label |-> c.docker_hosts_map[ip], type |-> "dockerhost"]
       ELSE IF hasIp /\ ip # <<>> /\ ip \in DOMAIN c.stations_map
       THEN [label |-> c.stations_map[ip], type |-> "station"]
       ELSE IF hasIp /\ ip # <<>>
       THEN [label |-> <<"h">> \o ip, type |-> "host"]
       ELSE IF mac_list # <<>>
       THEN [label |-> <<"h">> \o mac_list[1], type |-> "host"]
       ELSE [label |-> <<"h", "U", "n", "k", "n", "o", "w", "n">>,
             type |-> "host"]

\* The host side's label and type (add_hosts, the if/elif/else chain).
HostIdentity(c, dev) ==
    LET mac_list == MacList(dev)
        hasIp == dev.ipv4 # <<>>
        ip == IF hasIp THEN dev.ipv4[1] ELSE <<>>
    IN IF hasIp /\ ip # <<>> /\ ip \in DOMAIN c.stations_map
       THEN [label |-> c.stations_map[ip], type |-> "station"]
       ELSE IF hasIp /\ ip # <<>> /\ ip \in DOMAIN c.docker_hosts_map
       THEN [label |-> c.docker_hosts_map[ip], type |-> "dockerhost"]
       ELSE IF hasIp /\ ip # <<>>
       THEN [label |-> <<"h">> \o ip, type |-> "host"]
       ELSE IF mac_list # <<>>
       THEN [label |-> <<"h">> \o mac_list[1], type |-> "host"]
       ELSE [label |-> <<"h", "U", "n", "k", "n", "o", "w", "n">>,
             type |-> "host"]

\* ap.get("switch") or ap.get("switchDPID"): <<>> stands for a missing
\* or empty value.
ApSwitch(ap) == IF ap.switch # <<>> THEN ap.switch ELSE ap.switchDPID

\* Whether add_hosts' loop skips the record before it touches the graph.
\* A device record is [isDict, mac, ipv4, aps]; aps is the
\* "attachmentPoint" list (<<>> when missing or empty), each entry
\* [switch, switchDPID, port] with port None when missing.
DeviceSkipped(dev) ==
    \/ ~dev.isDict
    \/ dev.aps = <<>>
    \/ ApSwitch(dev.aps[1]) = <<>>
    \/ dev.aps[1].port = None

\* A variant of the pass that does not look at the first attachment
\* point's switch id and port before it inserts.
IngestDeviceNoSkip(G, c, dev) ==
    IF ~dev.isDict \/ dev.aps = <<>>
    THEN G
    ELSE LET ap == dev.aps[1]
             h == HostIdentity(c, dev)
             G1 == AddNode(G, h.label, h.type)
             switch_label == RemapDpid(c, ApSwitch(ap))
             G2 == AddNode(G1, switch_label, "switch")
         IN AddEdge(G2, h.label, switch_label,
                    [NoAttrs EXCEPT !.port = ap.port])

\* One pass of add_hosts' loop.
IngestDevice(G, c, dev) ==
    IF DeviceSkipped(dev)
    THEN G
    ELSE LET ap == dev.aps[1]
             h == HostIdentity(c, dev)
             G1 == AddNode(G, h.label, h.type)
             switch_label == RemapDpid(c, ApSwitch(ap))
             G2 == AddNode(G1, switch_label, "switch")
         IN AddEdge(G2, h.label, switch_label,
                    [NoAttrs EXCEPT !.port = ap.port])

\* add_hosts' loop: Gs holds the graph before the first record and after
\* each record seen so far.
RECURSIVE IngestDevices(_, _, _)
IngestDevices(Gs, c, devices) ==
    IF Len(Gs) > Len(devices)
    THEN Gs[Len(Gs)]
    ELSE IngestDevices(
             Append(Gs, IngestDevice(Gs[Len(Gs)], c, devices[Len(Gs)])),
             c, devices)

\* A variant of add_hosts that reads the records of a feed of any shape.
AddHostsOpAnyShape(G, c, feed) ==
    IF feed.shape = "none" \/ (feed.shape = "list" /\ feed.items = <<>>)
    THEN G
    ELSE IngestDevices(<<G>>, c, feed.items)

\* add_hosts.  The feed is what fetch_json returned: shape "none" (None),
\* "list" (a JSON array, items), "devices" (an object with a "devices"
\* key, items its value; a non-empty object is true) or "other" (an
\* object without that key).
AddHostsOp(G, c, feed) ==
    IF feed.shape = "none" \/ (feed.shape = "list" /\ feed.items = <<>>)
    THEN G
    ELSE IF feed.shape \in {"devices", "list"}
    THEN IngestDevices(<<G>>, c, feed.items)
    ELSE G

\* A variant of the chain that looks at the label of a host or of a node
\* without type only, and leaves a switch a switch.
ClassifyTypeKeepSwitch(node_name, t) ==
    LET existing_t == IF t = Absent THEN "unknown" ELSE t
    IN IF existing_t \notin {"host", "unknown"} THEN t
       ELSE IF StartsWith(node_name, <<"a", "p">>) THEN "ap"
       ELSE IF StartsWith(node_name, <<"s", "t", "a">>) THEN "station"
       ELSE IF StartsWith(node_name, <<"d">>) THEN "dockerhost"
       ELSE IF existing_t = "host" THEN t
       ELSE "unknown"

\* A variant of the chain whose last branch is taken by every node that
\* matches no prefix.
ClassifyTypeUnknownFallback(node_name, t) ==
    LET existing_t == IF t = Absent THEN "unknown" ELSE t
    IN IF existing_t \notin {"host", "switch", "unknown"} THEN t
       ELSE IF StartsWith(node_name, <<"a", "p">>) THEN "ap"
       ELSE IF StartsWith(node_name, <<"s", "t", "a">>) THEN "station"
       ELSE IF StartsWith(node_name, <<"d">>) THEN "dockerhost"
       ELSE "unknown"

\* classify_nodes, for one node: data.get("type", "unknown"), then the
\* prefix chain.
ClassifyType(node_name, t) ==
    LET existing_t == IF t = Absent THEN "unknown" ELSE t
    IN IF existing_t \notin {"host", "switch", "unknown"} THEN t
       ELSE IF StartsWith(node_name, <<"a", "p">>) THEN "ap"
       ELSE IF StartsWith(node_name, <<"s", "t", "a">>) THEN "station"
       ELSE IF StartsWith(node_name, <<"d">>) THEN "dockerhost"
       ELSE IF existing_t = "switch" THEN t
       ELSE IF existing_t = "host" THEN t
       ELSE "unknown"

\* classify_nodes: one pass over the nodes, in insertion order.
RECURSIVE ClassifyFrom(_, _)
ClassifyFrom(G, i) ==
    IF i > Len(G.nodes)
    THEN G
    ELSE LET node_name == G.nodes[i]
         IN ClassifyFrom(
                [G EXCEPT !.type[node_name] = ClassifyType(node_name, @)],
                i + 1)

ClassifyOp(G) == ClassifyFrom(G, 1)

\* build_topology: add_switch_links, add_hosts, classify_nodes, on the
\* graph the object already holds.
BuildTopologyOp(G, c, lf, df) ==
    ClassifyOp(AddHostsOp(AddSwitchLinksOp(G, c, lf), c, df))

\* ---------------------------------------------------------------- reads

\* nx.predecessor(G, source), one (v, w) step of the level loop: w is seen
\* for the first time, or again on the level it was first seen on.
BfsVisit(st, v, w, level) ==
    IF w \notin DOMAIN st.seen
    THEN [seen |-> st.seen @@ (w :> level),
          pred |-> st.pred @@ (w :> <<v>>),
          nextlevel |-> Append(st.nextlevel, w)]
    ELSE IF st.seen[w] = level
    THEN [st EXCEPT !.pred[w] = Append(@, v)]
    ELSE st

\* "for v in thislevel: for w in G[v]" as the sequence of its (v, w) pairs.
RECURSIVE LevelPairs(_, _, _)
LevelPairs(G, thislevel, i) ==
    IF i > Len(thislevel)
    THEN <<>>
    ELSE LET v == thislevel[i]
             nbrs == G.adj[v]
         IN [k \in 1 .. Len(nbrs) |-> <<v, nbrs[k]>>]
            \o LevelPairs(G, thislevel, i + 1)

\* One level: sts holds the search state before the first pair and after
\* each pair visited so far.
RECURSIVE BfsLevel(_, _, _)
BfsLevel(sts, pairs, level) ==
    IF Len(sts) > Len(pairs)
    THEN sts[Len(sts)]
    ELSE BfsLevel(Append(sts, BfsVisit(sts[Len(sts)], pairs[Len(sts)][1],
                                       pairs[Len(sts)][2], level)),
                  pairs, level)

\* "while nextlevel": the levels, one after the other.
RECURSIVE BfsFrom(_, _, _)
BfsFrom(G, st, level) ==
    IF st.nextlevel = <<>>
    THEN st
    ELSE BfsFrom(G,
                 BfsLevel(<<[st EXCEPT !.nextlevel = <<>>]>>,
                          LevelPairs(G, st.nextlevel, 1), level + 1),
                 level + 1)

\* nx.predecessor(G, source): every reachable node's predecessors on
\* shortest paths, in the order the search met them.
Predecessor(G, source) ==
    BfsFrom(G, [seen |-> (source :> 0), pred |-> (source :> <<>>),
                nextlevel |-> <<source>>], 0).pred

\* The paths _build_paths_from_predecessors yields, in its order: for
\* each predecessor of node in turn, every path to it, extended by node.
RECURSIVE PathsTo(_, _, _)
RECURSIVE PathsVia(_, _, _, _)
PathsVia(pred, source, node, i) ==
    IF i > Len(pred[node])
    THEN <<>>
    ELSE LET sub == PathsTo(pred, source, pred[node][i])
         IN [k \in 1 .. Len(sub) |-> Append(sub[k], node)]
            \o PathsVia(pred, source, node, i + 1)

\* A variant that yields no path for the source itself.
PathsToNoTrivial(pred, source, node) ==
    IF node = source
    THEN <<>>
    ELSE PathsVia(pred, source, node, 1)

PathsTo(pred, source, node) ==
    IF node = source
    THEN << <<source>> >>
    ELSE PathsVia(pred, source, node, 1)

NoPaths == [ok |-> FALSE, paths |-> <<>>]

\* A variant that returns the first shortest path only.
FindShortestPathFirstOnly(G, src_label, dst_label) ==
    IF src_label \notin NodeSet(G) \/ dst_label \notin NodeSet(G)
    THEN NoPaths
    ELSE LET pred == Predecessor(G, src_label)
         IN IF dst_label \notin DOMAIN pred
            THEN NoPaths
            ELSE [ok |-> TRUE,
                  paths |-> <<PathsTo(pred, src_label, dst_label)[1]>>]

\* A variant that answers a query for one label twice without looking
\* whether the label is in the graph.
FindShortestPathSameLabel(G, src_label, dst_label) ==
    IF src_label = dst_label
    THEN [ok |-> TRUE, paths |-> << <<src_label>> >>]
    ELSE IF src_label \notin NodeSet(G) \/ dst_label \notin NodeSet(G)
    THEN NoPaths
    ELSE LET pred == Predecessor(G, src_label)
         IN IF dst_label \notin DOMAIN pred
            THEN NoPaths
            ELSE [ok |-> TRUE, paths |-> PathsTo(pred, src_label, dst_label)]

\* find_shortest_path: None (ok false) for a label not in the graph or
\* when nx.all_shortest_paths raises NetworkXNoPath, else the list of
\* all shortest paths.
FindShortestPath(G, src_label, dst_label) ==
    IF src_label \notin NodeSet(G)
    THEN NoPaths
    ELSE IF dst_label \notin NodeSet(G)
    THEN NoPaths
    ELSE LET pred == Predecessor(G, src_label)
         IN IF dst_label \notin DOMAIN pred
            THEN NoPaths
            ELSE [ok |-> TRUE, paths |-> PathsTo(pred, src_label, dst_label)]

\* build_switch_mapping, one edge (u, v) as Graph.edges reports it: u gets
\* (v, src_port) and v gets (u, dst_port) when both have type "switch".
\* A variant of the loop body without the type test.
MapEdgeAnyType(G, mapping, u, v) ==
    LET data == G.attr[{u, v}]
        m1 == IF u \in DOMAIN mapping THEN mapping
              ELSE mapping @@ (u :> <<>>)
        m2 == IF v \in DOMAIN m1 THEN m1 ELSE m1 @@ (v :> <<>>)
        m3 == [m2 EXCEPT ![u] = Append(@, <<v, Get(data, "src_port")>>)]
    IN [m3 EXCEPT ![v] = Append(@, <<u, Get(data, "dst_port")>>)]

MapEdge(G, mapping, u, v) ==
    IF G.type[u] = "switch" /\ G.type[v] = "switch"
    THEN LET data == G.attr[{u, v}]
             m1 == IF u \in DOMAIN mapping THEN mapping
                   ELSE mapping @@ (u :> <<>>)
             m2 == IF v \in DOMAIN m1 THEN m1 ELSE m1 @@ (v :> <<>>)
             m3 == [m2 EXCEPT ![u] = Append(@, <<v, Get(data, "src_port")>>)]
         IN [m3 EXCEPT ![v] = Append(@, <<u, Get(data, "dst_port")>>)]
    ELSE mapping

\* build_switch_mapping's loop: ms holds the mapping before the first edge
\* and after each edge seen so far.
RECURSIVE MapEdges(_, _, _)
MapEdges(ms, G, edges) ==
    IF Len(ms) > Len(edges)
    THEN ms[Len(ms)]
    ELSE MapEdges(Append(ms, MapEdge(G, ms[Len(ms)], edges[Len(ms)][1],
                                     edges[Len(ms)][2])),
                  G, edges)

BuildSwitchMapping(G) == MapEdges(<<EmptyFn>>, G, Edges(G))

\* The index of the first (neighbor, port) entry for dst_switch, 0 if none.
RECURSIVE FirstMatch(_, _, _)
FirstMatch(entries, dst_switch, i) ==
    IF i > Len(entries) THEN 0
    ELSE IF entries[i][1] = dst_switch THEN i
    ELSE FirstMatch(entries, dst_switch, i + 1)

\* The bandwidth URL .../bandwidth/{src_switch[1:]}/{port}/json.
BandwidthUrl(src_switch, port) ==
    [switch |-> StripFirst(src_switch), port |-> port]

\* A variant of the inner loop that gives up a path's remaining pairs at
\* the first pair the mapping does not resolve.
RECURSIVE UrlsFromStopAtMiss(_, _, _)
UrlsFromStopAtMiss(mapping, switches_in_path, i) ==
    IF i + 1 > Len(switches_in_path)
    THEN <<>>
    ELSE LET src_switch == switches_in_path[i]
             dst_switch == switches_in_path[i + 1]
             k == IF src_switch \in DOMAIN mapping
                  THEN FirstMatch(mapping[src_switch], dst_switch, 1)
                  ELSE 0
         IN IF k = 0
            THEN <<>>
            ELSE <<BandwidthUrl(src_switch, mapping[src_switch][k][2])>>
                 \o UrlsFromStopAtMiss(mapping, switches_in_path, i + 1)

\* find_optimal_path's inner loop: the URLs of the consecutive pairs of
\* path[1:-1] that the mapping resolves, from pair i on.
RECURSIVE UrlsFrom(_, _, _)
UrlsFrom(mapping, switches_in_path, i) ==
    IF i + 1 > Len(switches_in_path)
    THEN <<>>
    ELSE LET src_switch == switches_in_path[i]
             dst_switch == switches_in_path[i + 1]
             k == IF src_switch \in DOMAIN mapping
                  THEN FirstMatch(mapping[src_switch], dst_switch, 1)
                  ELSE 0
         IN (IF k = 0
             THEN <<>>
             ELSE <<BandwidthUrl(src_switch, mapping[src_switch][k][2])>>)
            \o UrlsFrom(mapping, switches_in_path, i + 1)

PathUrls(mapping, path) ==
    UrlsFrom(mapping, SubSeq(path, 2, Len(path) - 1), 1)

\* abs(rx - tx)
LinkCost(port_info) ==
    IF port_info.rx >= port_info.tx
    THEN port_info.rx - port_info.tx
    ELSE port_info.tx - port_info.rx

\* compute_path_cost: answers[i] is what fetch_json returns for the i-th
\* URL, [ok, rx, tx]; indexing None (ok false) raises TypeError, which
\* nothing catches.  fetched counts the fetches issued.
RECURSIVE ComputePathCost(_, _, _, _)
ComputePathCost(n, answers, i, total_cost) ==
    IF i > n
    THEN [raised |-> FALSE, cost |-> total_cost, fetched |-> n]
    ELSE IF ~answers[i].ok
    THEN [raised |-> TRUE, cost |-> total_cost, fetched |-> i]
    ELSE ComputePathCost(n, answers, i + 1,
                         total_cost + LinkCost(answers[i]))

\* A variant that starts the comparison from cost 0.
MinCostZero == [inf |-> FALSE, v |-> 0]

\* min_cost = float('inf')
Infinity == [inf |-> TRUE, v |-> 0]

Finite(x) == [inf |-> FALSE, v |-> x]

\* A variant of the comparison that keeps one path only, the last of
\* least cost.
SelectKeepLast(st, path, local_cost) ==
    IF st.min_cost.inf \/ local_cost <= st.min_cost.v
    THEN [st EXCEPT !.min_cost = Finite(local_cost),
                    !.optimal_paths = <<path>>]
    ELSE st

\* The cost comparison that ends find_optimal_path's outer loop body.
Select(st, path, local_cost) ==
    IF st.min_cost.inf \/ local_cost < st.min_cost.v
    THEN [st EXCEPT !.min_cost = Finite(local_cost),
                    !.optimal_paths = <<path>>]
    ELSE IF ~st.min_cost.inf /\ local_cost = st.min_cost.v
    THEN [st EXCEPT !.optimal_paths = Append(@, path)]
    ELSE st

\* A variant of the pass that costs every path with the answers the first
\* path got, instead of fetching again.
EvaluatePathReuse(st, mapping, path, resp) ==
    IF st.raised
    THEN st
    ELSE LET bandwidth_urls == PathUrls(mapping, path)
             answers == [k \in 1 .. Len(bandwidth_urls) |-> resp[k]]
             r == ComputePathCost(Len(bandwidth_urls), answers, 1, 0)
             st1 == [st EXCEPT
                        !.used = @ + r.fetched,
                        !.fetched = @ \o SubSeq(bandwidth_urls, 1, r.fetched)]
         IN IF r.raised
            THEN [st1 EXCEPT !.raised = TRUE]
            ELSE Select([st1 EXCEPT !.costs = Append(@, r.cost)],
                        path, r.cost)

\* One pass of find_optimal_path's outer loop.  st.used is the number of
\* telemetry answers consumed so far, st.fetched the URLs requested and
\* st.costs each evaluated path's local_cost; once an exception is raised
\* no further path is evaluated.
EvaluatePath(st, mapping, path, resp) ==
    IF st.raised
    THEN st
    ELSE LET bandwidth_urls == PathUrls(mapping, path)
             answers == [k \in 1 .. Len(bandwidth_urls) |-> resp[st.used + k]]
             r == ComputePathCost(Len(bandwidth_urls), answers, 1, 0)
             st1 == [st EXCEPT
                        !.used = @ + r.fetched,
                        !.fetched = @ \o SubSeq(bandwidth_urls, 1, r.fetched)]
         IN IF r.raised
            THEN [st1 EXCEPT !.raised = TRUE]
            ELSE Select([st1 EXCEPT !.costs = Append(@, r.cost)],
                        path, r.cost)

RECURSIVE EvaluatePaths(_, _, _, _)
EvaluatePaths(sts, mapping, paths, resp) ==
    IF Len(sts) > Len(paths)
    THEN sts[Len(sts)]
    ELSE EvaluatePaths(
             Append(sts, EvaluatePath(sts[Len(sts)], mapping,
                                      paths[Len(sts)], resp)),
             mapping, paths, resp)

\* A variant that returns the empty list where there is no shortest path.
FindOptimalPathEmptyList(G, src_host, dst_host, resp) ==
    LET shortest_paths == FindShortestPath(G, src_host, dst_host)
    IN IF ~shortest_paths.ok \/ shortest_paths.paths = <<>>
       THEN [status |-> "returned", paths |-> <<>>, shortest |-> <<>>,
             fetched |-> <<>>, costs |-> <<>>, used |-> 0]
       ELSE LET switch_mapping == BuildSwitchMapping(G)
                st == EvaluatePaths(
                          <<[min_cost |-> Infinity, optimal_paths |-> <<>>,
                             used |-> 0, fetched |-> <<>>, costs |-> <<>>,
                             raised |-> FALSE]>>,
                          switch_mapping, shortest_paths.paths, resp)
            IN [status |-> IF st.raised THEN "raised" ELSE "returned",
                paths |-> IF st.raised THEN <<>> ELSE st.optimal_paths,
                shortest |-> shortest_paths.paths,
                fetched |-> st.fetched, costs |-> st.costs,
                used |-> st.used]

\* find_optimal_path: status "sentinel" is ["NO OPTIMAL PATH"], "raised"
\* an exception leaving the call, "returned" the list optimal_paths.
FindOptimalPath(G, src_host, dst_host, resp) ==
    LET shortest_paths == FindShortestPath(G, src_host, dst_host)
    IN IF ~shortest_paths.ok \/ shortest_paths.paths = <<>>
       THEN [status |-> "sentinel", paths |-> <<>>, shortest |-> <<>>,
             fetched |-> <<>>, costs |-> <<>>, used |-> 0]
       ELSE LET switch_mapping == BuildSwitchMapping(G)
                st == EvaluatePaths(
                          <<[min_cost |-> Infinity, optimal_paths |-> <<>>,
                             used |-> 0, fetched |-> <<>>, costs |-> <<>>,
                             raised |-> FALSE]>>,
                          switch_mapping, shortest_paths.paths, resp)
            IN [status |-> IF st.raised THEN "raised" ELSE "returned",
                paths |-> IF st.raised THEN <<>> ELSE st.optimal_paths,
                shortest |-> shortest_paths.paths,
                fetched |-> st.fetched, costs |-> st.costs,
                used |-> st.used]

\* The number of telemetry URLs find_optimal_path builds for src, dst.
RECURSIVE CountUrls(_, _, _)
CountUrls(mapping, paths, i) ==
    IF i > Len(paths)
    THEN 0
    ELSE Len(PathUrls(mapping, paths[i])) + CountUrls(mapping, paths, i + 1)

UrlCount(G, src_host, dst_host) ==
    CountUrls(BuildSwitchMapping(G),
              FindShortestPath(G, src_host, dst_host).paths, 1)

\* ------------------------------------------------------------- inputs

\* Constructor arguments.  EmptyCfg is FloodlightVisualizer() with no
\* maps; RichCfg relabels switch 1 as "ap1", switch 3 as "d3" and switch 5
\* as "sw5", names
\* the stations of 10.0.0.7 and 10.0.0.9 "sta2" and "s2" (the default
\* label of switch 2), and the docker hosts of .8 and .7 "d1" and "d7".
EmptyCfg ==
    [dpid_map |-> EmptyFn, stations_map |-> EmptyFn,
     docker_hosts_map |-> EmptyFn]

RichCfg ==
    [dpid_map |-> (<<"1">> :> <<"a", "p", "1">>) @@ (<<"3">> :> <<"d", "3">>)
                  @@ (<<"5">> :> <<"s", "w", "5">>),
     stations_map |-> (<<"7">> :> <<"s", "t", "a", "2">>)
                      @@ (<<"9">> :> <<"s", "2">>),
     docker_hosts_map |-> (<<"8">> :> <<"d", "1">>)
                          @@ (<<"7">> :> <<"d", "7">>)]

Configs == {EmptyCfg, RichCfg}

Link(src, dst, sport, dport, ltype) ==
    [src |-> src, dst |-> dst, sport |-> sport, dport |-> dport,
     ltype |-> ltype, dir |-> "bidirectional"]

NoFeed == [shape |-> "none", items |-> <<>>]

\* The 3-cycle among switches 1, 2, 3.
LCycle ==
    [shape |-> "list",
     items |-> << Link(<<"1">>, <<"2">>, "1", "2", "internal"),
                  Link(<<"2">>, <<"3">>, "3", "4", "internal"),
                  Link(<<"3">>, <<"1">>, "5", "6", "internal") >>]

\* Records without "src-switch" or without "dst-switch" around a good one.
LMalformed ==
    [shape |-> "list",
     items |-> << Link(<<>>, <<"2">>, "1", "2", "internal"),
                  Link(<<"1">>, <<"2">>, "1", "2", "internal"),
                  Link(<<"3">>, <<>>, "3", "4", "external") >>]

\* One record per direction of the same link.
LBothDirs ==
    [shape |-> "list",
     items |-> << Link(<<"2">>, <<"4">>, "1", "2", "internal"),
                  Link(<<"4">>, <<"2">>, "2", "1", "external") >>]

\* Two equally long routes from switch 2 to switch 6, through 4 and 5,
\* and a link from switch 6 on to switch 3.
LTie ==
    [shape |-> "list",
     items |-> << Link(<<"2">>, <<"4">>, "1", "1", "internal"),
                  Link(<<"2">>, <<"5">>, "2", "1", "internal"),
                  Link(<<"4">>, <<"6">>, "2", "1", "internal"),
                  Link(<<"5">>, <<"6">>, "2", "2", "internal"),
                  Link(<<"6">>, <<"3">>, "3", "1", "internal") >>]

LEmpty == [shape |-> "list", items |-> <<>>]

LinkFeeds == {NoFeed, LCycle, LMalformed, LBothDirs, LTie, LEmpty}

NoMac == [isStr |-> FALSE, str |-> <<>>, list |-> <<>>]

MacStr(m) == [isStr |-> TRUE, str |-> m, list |-> <<>>]

MacListOf(m) == [isStr |-> FALSE, str |-> <<>>, list |-> <<m>>]

Ap(switch, switchDPID, port) ==
    [switch |-> switch, switchDPID |-> switchDPID, port |-> port]

Device(mac, ipv4, aps) ==
    [isDict |-> TRUE, mac |-> mac, ipv4 |-> ipv4, aps |-> aps]

NotADict == [isDict |-> FALSE, mac |-> NoMac, ipv4 |-> <<>>, aps |-> <<>>]

\* Two hosts at the ends of LTie's routes.
DHosts ==
    [shape |-> "list",
     items |-> << Device(MacListOf(<<"a">>), << <<"7">> >>,
                         << Ap(<<"2">>, <<>>, "3") >>),
                  Device(MacListOf(<<"b">>), <<>>,
                         << Ap(<<"6">>, <<>>, "3") >>) >>]

\* One record for each way a host is named, in a {"devices": [...]} object.
DPrecedence ==
    [shape |-> "devices",
     items |-> << Device(MacListOf(<<"a">>), << <<"7">>, <<"8">> >>,
                         << Ap(<<"1">>, <<>>, "1"), Ap(<<"2">>, <<>>, "9") >>),
                  Device(MacListOf(<<"b">>), << <<"5">> >>,
                         << Ap(<<"2">>, <<>>, "2") >>),
                  Device(MacStr(<<"m">>), <<>>,
                         << Ap(<<>>, <<"2">>, "3") >>),
                  Device(NoMac, <<>>,
                         << Ap(<<"3">>, <<"2">>, "1") >>) >>]

\* Records that add_hosts skips around a good one.
DMalformed ==
    [shape |-> "list",
     items |-> << Device(MacListOf(<<"a">>), << <<"7">> >>, <<>>),
                  Device(MacListOf(<<"b">>), << <<"5">> >>,
                         << Ap(<<>>, <<>>, "1") >>),
                  Device(MacListOf(<<"c">>), << <<"8">> >>,
                         << Ap(<<"2">>, <<>>, "1") >>),
                  Device(MacListOf(<<"d">>), << <<"4">> >>,
                         << Ap(<<"2">>, <<>>, None) >>),
                  NotADict >>]

\* A host seen on switch 4 and then on switch 2, whose mapped label is
\* also the label of switch 2.
DOnSwitch2 ==
    [shape |-> "list",
     items |-> << Device(MacListOf(<<"e">>), << <<"9">> >>,
                         << Ap(<<"4">>, <<>>, "7") >>),
                  Device(MacListOf(<<"e">>), << <<"9">> >>,
                         << Ap(<<"2">>, <<>>, "4") >>) >>]

\* {"foo": [...]}: an object without a "devices" key, a device record
\* under another key.
DOther ==
    [shape |-> "other",
     items |-> << Device(MacListOf(<<"f">>), << <<"5">> >>,
                         << Ap(<<"2">>, <<>>, "6") >>) >>]

DeviceFeeds == {NoFeed, DHosts, DPrecedence, DMalformed, DOnSwitch2, DOther}

\* ------------------------------------------------------------ behaviour

Call(op, lf, df) == [op |-> op, links |-> lf, devs |-> df]

NoRet == [op |-> "none"]

\* FloodlightVisualizer(...): the graph is created empty.
Init ==
    /\ cfg \in Configs
    /\ topology = EmptyGraph
    /\ hist = <<>>
    /\ ret = NoRet

AddSwitchLinks(lf) ==
    /\ topology' = AddSwitchLinksOp(topology, cfg, lf)
    /\ hist' = Append(hist, Call("add_switch_links", lf, NoFeed))
    /\ ret' = NoRet
    /\ UNCHANGED cfg

AddHosts(df) ==
    /\ topology' = AddHostsOp(topology, cfg, df)
    /\ hist' = Append(hist, Call("add_hosts", NoFeed, df))
    /\ ret' = NoRet
    /\ UNCHANGED cfg

ClassifyNodes ==
    /\ topology' = ClassifyOp(topology)
    /\ hist' = Append(hist, Call("classify_nodes", NoFeed, NoFeed))
    /\ ret' = NoRet
    /\ UNCHANGED cfg

BuildTopology(lf, df) ==
    /\ topology' = BuildTopologyOp(topology, cfg, lf, df)
    /\ hist' = Append(hist, Call("build_topology", lf, df))
    /\ ret' = NoRet
    /\ UNCHANGED cfg

CallLinks ==
    /\ Len(hist) < MaxCalls
    /\ \E lf \in LinkFeeds : AddSwitchLinks(lf)

CallHosts ==
    /\ Len(hist) < MaxCalls
    /\ \E df \in DeviceFeeds : AddHosts(df)

CallClassify ==
    /\ Len(hist) < MaxCalls
    /\ ClassifyNodes

CallBuild ==
    /\ Len(hist) < MaxCalls
    /\ \E lf \in LinkFeeds, df \in DeviceFeeds : BuildTopology(lf, df)

\* The mutating methods, called in any order.
Next == CallLinks \/ CallHosts \/ CallClassify \/ CallBuild

Spec == Init /\ [][Next]_vars

\* ------------------------------------------------- behaviour with reads

\* A label that no feed produces.
UnknownLabel == <<"z">>

QueryLabels == NodeSet(topology) \cup {UnknownLabel}

\* What fetch_json returns for a bandwidth URL: None, or a list whose
\* first element holds the two counters.
NoAnswer == [ok |-> FALSE, rx |-> 0, tx |-> 0]

Answer(rx, tx) == [ok |-> TRUE, rx |-> rx, tx |-> tx]

Samples == {NoAnswer, Answer(100, 0), Answer(0, 50)}

\* A variant of the call that puts the two labels it is asked about into
\* the graph.
CallFindShortestPathInserting(src, dst) ==
    /\ ret' = [op |-> "find_shortest_path", src |-> src, dst |-> dst,
               value |-> FindShortestPath(topology, src, dst)]
    /\ topology' = EnsureNode(EnsureNode(topology, src), dst)
    /\ UNCHANGED <<cfg, hist>>

CallFindShortestPath(src, dst) ==
    /\ ret' = [op |-> "find_shortest_path", src |-> src, dst |-> dst,
               value |-> FindShortestPath(topology, src, dst)]
    /\ UNCHANGED <<cfg, topology, hist>>

CallBuildSwitchMapping ==
    /\ ret' = [op |-> "build_switch_mapping",
               value |-> BuildSwitchMapping(topology)]
    /\ UNCHANGED <<cfg, topology, hist>>

CallFindOptimalPath(src, dst, resp) ==
    /\ ret' = [op |-> "find_optimal_path", src |-> src, dst |-> dst,
               resp |-> resp,
               value |-> FindOptimalPath(topology, src, dst, resp)]
    /\ UNCHANGED <<cfg, topology, hist>>

FirstBuild ==
    /\ hist = <<>>
    /\ \E lf \in LinkFeeds, df \in DeviceFeeds : BuildTopology(lf, df)

\* The reads leave cfg, topology and hist as they are and their results
\* depend on nothing else, so one read per behaviour reaches every result.
QueryShortest ==
    /\ ret = NoRet
    /\ \E src \in QueryLabels, dst \in QueryLabels :
           CallFindShortestPath(src, dst)

QueryMapping ==
    /\ ret = NoRet
    /\ CallBuildSwitchMapping

QueryOptimal ==
    /\ ret = NoRet
    /\ \E src \in QueryLabels, dst \in QueryLabels :
           \E resp \in [1 .. UrlCount(topology, src, dst) -> Samples] :
               CallFindOptimalPath(src, dst, resp)

\* One build_topology call on the new object, then the read methods.
PathNext == FirstBuild \/ QueryShortest \/ QueryMapping \/ QueryOptimal

PathSpec == Init /\ [][PathNext]_vars

\* ------------------------------------------------------ fetch behaviour

\* What requests.get did: raised a RequestException, or gave a response
\* with a status code and a text that parses as JSON (to body) or not.
Response(raised, status_code, parses, body) ==
    [raised |-> raised, status_code |-> status_code, parses |-> parses,
     body |-> body]

\* A variant of fetch_json that does not look at the status code.
FetchJsonAnyStatus(resp) ==
    IF resp.raised THEN NoFeed
    ELSE IF ~resp.parses THEN NoFeed
    ELSE resp.body

\* fetch_json: None unless the request succeeds with status 200 and a
\* text that parses.
FetchJson(resp) ==
    IF resp.raised THEN NoFeed
    ELSE IF resp.status_code # 200 THEN NoFeed
    ELSE IF ~resp.parses THEN NoFeed
    ELSE resp.body

Refused == Response(TRUE, 0, FALSE, NoFeed)

NotJson == Response(FALSE, 200, FALSE, NoFeed)

LinkResponses ==
    {Response(FALSE, 200, TRUE, LCycle), Response(FALSE, 500, TRUE, LCycle),
     Refused, NotJson}

DeviceResponses ==
    {Response(FALSE, 200, TRUE, DHosts), Response(FALSE, 200, TRUE, DOnSwitch2),
     Response(FALSE, 404, TRUE, DHosts), Refused, NotJson}

\* build_topology, the two feeds read through fetch_json.
FetchedBuild(lr, dr) ==
    /\ topology' = BuildTopologyOp(topology, cfg, FetchJson(lr), FetchJson(dr))
    /\ hist' = Append(hist, [op |-> "build_topology",
                             links |-> FetchJson(lr), devs |-> FetchJson(dr),
                             link_resp |-> lr, dev_resp |-> dr])
    /\ ret' = NoRet
    /\ UNCHANGED cfg

CallFetchedBuild ==
    /\ Len(hist) < MaxCalls
    /\ \E lr \in LinkResponses, dr \in DeviceResponses : FetchedBuild(lr, dr)

FetchNext == CallFetchedBuild

FetchSpec == Init /\ [][FetchNext]_vars

\* ---------------------------------------------------------- properties

LastCall == hist[Len(hist)]

Last(p) == p[Len(p)]

\* The link records add_switch_links ingests from a feed.
IngestedLinks(feed) ==
    IF feed.shape = "list"
    THEN SelectSeq(feed.items, LAMBDA r : r.src # <<>> /\ r.dst # <<>>)
    ELSE <<>>

\* Whether record i is the last of the records to write its pair's edge.
LastForPair(c, links, i) ==
    \A j \in (i + 1) .. Len(links) :
        {RemapDpid(c, links[j].src), RemapDpid(c, links[j].dst)}
            # {RemapDpid(c, links[i].src), RemapDpid(c, links[i].dst)}

\* C1: for every link record (A, p, B, q) ingested, both endpoints of type
\* switch when build_switch_mapping runs, the index holds (B, p) under A
\* and (A, q) under B.  (Stated for the record that wrote the edge last.)
C1_PortsNotSwapped ==
    (ret.op = "build_switch_mapping" /\ hist # <<>>) =>
        LET links == IngestedLinks(LastCall.links)
        IN \A i \in 1 .. Len(links) :
               LET A == RemapDpid(cfg, links[i].src)
                   B == RemapDpid(cfg, links[i].dst)
               IN (/\ LastForPair(cfg, links, i)
                   /\ topology.type[A] = "switch"
                   /\ topology.type[B] = "switch")
                  => /\ A \in DOMAIN ret.value
                     /\ B \in DOMAIN ret.value
                     /\ <<B, links[i].sport>> \in Range(ret.value[A])
                     /\ <<A, links[i].dport>> \in Range(ret.value[B])

\* The least of a non-empty sequence of costs.
MinOf(costs) == CHOOSE c \in Range(costs) : \A d \in Range(costs) : c <= d

\* The paths whose cost is m, in the order of paths.
RECURSIVE PathsOfCost(_, _, _, _)
PathsOfCost(paths, costs, m, i) ==
    IF i > Len(paths)
    THEN <<>>
    ELSE (IF costs[i] = m THEN <<paths[i]>> ELSE <<>>)
         \o PathsOfCost(paths, costs, m, i + 1)

\* C2: when find_optimal_path has computed the cost of every shortest
\* path, it returns exactly the paths of least computed cost, in
\* enumeration order (costs 100, 150: the first only; 100, 100: both).
C2_MinCostPathsSelected ==
    (ret.op = "find_optimal_path" /\ ret.value.status = "returned") =>
        LET v == ret.value
        IN /\ v.shortest # <<>>
           /\ Len(v.costs) = Len(v.shortest)
           /\ v.paths = PathsOfCost(v.shortest, v.costs, MinOf(v.costs), 1)
           /\ (v.costs = <<100, 150>> => v.paths = <<v.shortest[1]>>)
           /\ (v.costs = <<100, 100>> => v.paths = v.shortest)

C2_Witness ==
    /\ ret.op = "find_optimal_path"
    /\ ret.value.status = "returned"
    /\ ret.value.costs = <<100, 150>>
    /\ Len(ret.value.fetched) = 4
    /\ ret.value.paths = <<ret.value.shortest[1]>>

\* The neighbours of n, read off the edge set.
Neighbours(G, n) == {m \in NodeSet(G) : {n, m} \in EdgeSet(G)}

\* The simple paths of k edges that start at src.
RECURSIVE SimplePaths(_, _, _)
SimplePaths(G, src, k) ==
    IF k = 0
    THEN {<<src>>}
    ELSE UNION {{Append(p, w) : w \in Neighbours(G, Last(p)) \ Range(p)} :
                p \in SimplePaths(G, src, k - 1)}

HopCounts(G, src, dst) ==
    {k \in 0 .. Len(G.nodes) :
        \E p \in SimplePaths(G, src, k) : Last(p) = dst}

\* C3: for two labels of the graph that are connected, find_shortest_path
\* returns every simple path of least hop count between them, each once,
\* and no other path.
C3_AllShortestPaths ==
    (/\ ret.op = "find_shortest_path"
     /\ ret.src \in NodeSet(topology)
     /\ ret.dst \in NodeSet(topology)
     /\ HopCounts(topology, ret.src, ret.dst) # {}) =>
        LET hops == HopCounts(topology, ret.src, ret.dst)
            least == CHOOSE k \in hops : \A j \in hops : k <= j
            want == {p \in SimplePaths(topology, ret.src, least) :
                        Last(p) = ret.dst}
        IN /\ ret.value.ok
           /\ Range(ret.value.paths) = want
           /\ Len(ret.value.paths) = Cardinality(want)

C3_Witness ==
    /\ ret.op = "find_shortest_path"
    /\ ret.value.ok
    /\ Len(ret.value.paths) = 2
    /\ Len(ret.value.paths[1]) = 5

\* C4: when a telemetry fetch of find_optimal_path fails, the call still
\* returns, with a cost for every shortest path.
C4_FailedFetchCostsZero ==
    (/\ ret.op = "find_optimal_path"
     /\ \E k \in 1 .. ret.value.used : ~ret.resp[k].ok) =>
        /\ ret.value.status = "returned"
        /\ Len(ret.value.costs) = Len(ret.value.shortest)

\* The device records add_hosts ingests from a feed.
IngestedDevices(feed) ==
    IF feed.shape \in {"list", "devices"}
    THEN SelectSeq(feed.items,
                   LAMBDA d : /\ d.isDict
                              /\ d.aps # <<>>
                              /\ d.aps[1].switch \o d.aps[1].switchDPID # <<>>
                              /\ d.aps[1].port # None)
    ELSE <<>>

\* C5: after build_topology, the node of a device record whose first IPv4
\* address is a key of stations_map has the mapped label and type station,
\* and one whose first address is only a key of docker_hosts_map has the
\* mapped label and type dockerhost.
C5_MappedTypeKept ==
    (hist # <<>> /\ LastCall.op = "build_topology") =>
        LET devs == IngestedDevices(LastCall.devs)
        IN \A i \in 1 .. Len(devs) :
               devs[i].ipv4 # <<>> =>
                   LET ip == devs[i].ipv4[1]
                   IN /\ ip \in DOMAIN cfg.stations_map =>
                          /\ cfg.stations_map[ip] \in NodeSet(topology)
                          /\ topology.type[cfg.stations_map[ip]] = "station"
                      /\ (/\ ip \notin DOMAIN cfg.stations_map
                          /\ ip \in DOMAIN cfg.docker_hosts_map) =>
                          /\ cfg.docker_hosts_map[ip] \in NodeSet(topology)
                          /\ topology.type[cfg.docker_hosts_map[ip]]
                                 = "dockerhost"

Specialized == {"station", "dockerhost", "ap"}

\* C6: a node is never duplicated, and a call of add_switch_links or
\* add_hosts never replaces a specialized type (station, dockerhost, ap) of
\* a node by a generic one.
C6_NoDowngrade ==
    [][(hist' # hist /\ hist'[Len(hist')].op \in {"add_switch_links", "add_hosts"})
         => /\ Cardinality(NodeSet(topology')) = Len(topology'.nodes)
            /\ \A n \in NodeSet(topology) :
                   topology.type[n] \in Specialized
                       => topology'.type[n] \in Specialized]_vars

\* C7: after build_topology the graph holds the nodes and edges of the two
\* feeds just fetched and nothing of an earlier build.
C7_RebuiltInFull ==
    (hist # <<>> /\ \A i \in 1 .. Len(hist) : hist[i].op = "build_topology") =>
        LET fresh == BuildTopologyOp(EmptyGraph, cfg, LastCall.links,
                                     LastCall.devs)
        IN /\ NodeSet(topology) = NodeSet(fresh)
           /\ EdgeSet(topology) = EdgeSet(fresh)

OnlyCycleIngested(h) ==
    /\ h # <<>>
    /\ \A i \in 1 .. Len(h) : h[i].op = "add_switch_links" /\ h[i].links = LCycle

\* C8: ingesting the same link list a second time leaves the graph as it
\* was (same nodes, same edges, same edge attributes), and a three-switch
\* cycle ingested into an empty graph any number of times gives three
\* nodes of type switch and three edges.
C8_LinkIngestionIdempotent ==
    [][/\ (/\ hist # <<>>
           /\ hist' = Append(hist, LastCall)
           /\ LastCall.op = "add_switch_links") => topology' = topology
       /\ OnlyCycleIngested(hist') =>
              /\ Len(topology'.nodes) = 3
              /\ Cardinality(NodeSet(topology')) = 3
              /\ \A n \in NodeSet(topology') : topology'.type[n] = "switch"
              /\ Cardinality(EdgeSet(topology')) = 3]_vars

C8_Witness ==
    /\ Len(hist) = 2
    /\ OnlyCycleIngested(hist)
    /\ Len(topology.nodes) = 3
    /\ Cardinality(EdgeSet(topology)) = 3

\* The label and type the precedence rule gives a device record.
Expected(c, dev) ==
    LET macs == IF dev.mac.isStr THEN <<dev.mac.str>> ELSE dev.mac.list
    IN IF dev.ipv4 # <<>> /\ dev.ipv4[1] \in DOMAIN c.stations_map
       THEN [label |-> c.stations_map[dev.ipv4[1]], type |-> "station"]
       ELSE IF dev.ipv4 # <<>> /\ dev.ipv4[1] \in DOMAIN c.docker_hosts_map
       THEN [label |-> c.docker_hosts_map[dev.ipv4[1]], type |-> "dockerhost"]
       ELSE IF dev.ipv4 # <<>>
       THEN [label |-> <<"h">> \o dev.ipv4[1], type |-> "host"]
       ELSE IF macs # <<>>
       THEN [label |-> <<"h">> \o macs[1], type |-> "host"]
       ELSE [label |-> <<"h", "U", "n", "k", "n", "o", "w", "n">>,
             type |-> "host"]

\* The label of the switch a device record is attached to.
AttachedTo(c, dev) ==
    RemapDpid(c, IF dev.aps[1].switch # <<>> THEN dev.aps[1].switch
                 ELSE dev.aps[1].switchDPID)

\* Whether record i is the only record of devs to insert its host label.
OnlyWriter(c, devs, i) ==
    \A j \in 1 .. Len(devs) :
        /\ AttachedTo(c, devs[j]) # Expected(c, devs[i]).label
        /\ j # i => Expected(c, devs[j]).label # Expected(c, devs[i]).label

\* C9: add_hosts gives each device record the label and type of the first
\* rule that applies: stations_map, docker_hosts_map, "h" + first IPv4,
\* "h" + first MAC, "hUnknown"; the host node is in the graph, joined to its
\* switch by an edge that carries the port.
C9_HostPrecedence ==
    (hist # <<>> /\ LastCall.op = "add_hosts") =>
        LET devs == IngestedDevices(LastCall.devs)
        IN \A i \in 1 .. Len(devs) :
               LET e == Expected(cfg, devs[i])
                   sw == AttachedTo(cfg, devs[i])
               IN /\ HostIdentity(cfg, devs[i]) = e
                  /\ e.label \in NodeSet(topology)
                  /\ {e.label, sw} \in EdgeSet(topology)
                  /\ OnlyWriter(cfg, devs, i) =>
                         /\ topology.type[e.label] = e.type
                         /\ topology.attr[{e.label, sw}].port
                                = devs[i].aps[1].port

C9_Witness ==
    /\ hist # <<>>
    /\ LastCall.op = "add_hosts"
    /\ LastCall.devs = DPrecedence
    /\ cfg = RichCfg
    /\ topology.type[cfg.stations_map[<<"7">>]] = "station"
    /\ <<"h", "5">> \in NodeSet(topology)
    /\ <<"h", "m">> \in NodeSet(topology)
    /\ <<"h", "U", "n", "k", "n", "o", "w", "n">> \in NodeSet(topology)

\* A feed without its malformed records.
WellFormed(feed, items) == [shape |-> feed.shape, items |-> items]

\* C10: a link record without a source or destination switch id, and a
\* device record without an attachment point, or whose first attachment
\* point lacks a switch id or a port, is skipped: the graph is the one the
\* rest of the feed gives, and the other records are still processed.
C10_MalformedSkipped ==
    [][hist' # hist =>
         LET call == hist'[Len(hist')]
             links == WellFormed(call.links, IngestedLinks(call.links))
             devs == WellFormed(call.devs, IngestedDevices(call.devs))
         IN /\ call.op = "add_switch_links" =>
                topology' = AddSwitchLinksOp(topology, cfg, links)
            /\ call.op = "add_hosts" =>
                topology' = AddHostsOp(topology, cfg, devs)
            /\ call.op = "build_topology" =>
                topology' = BuildTopologyOp(topology, cfg, links, devs)
            /\ (IngestedLinks(call.links) = <<>>
                /\ IngestedDevices(call.devs) = <<>>) =>
                   /\ topology'.nodes = topology.nodes
                   /\ EdgeSet(topology') = EdgeSet(topology)]_vars

C10_Witness ==
    /\ Len(hist) = 1
    /\ LastCall.op = "build_topology"
    /\ LastCall.links = LMalformed
    /\ LastCall.devs = DMalformed
    /\ Cardinality(NodeSet(topology)) = 3
    /\ Cardinality(EdgeSet(topology)) = 2

\* C11: a device feed that is neither an array nor an object with a
\* "devices" key makes add_hosts leave the graph as it was; build_topology
\* on such a feed completes with the nodes and edges of link ingestion.
C11_UnknownEnvelopeIgnored ==
    [][(hist' # hist /\ hist'[Len(hist')].devs.shape = "other") =>
         LET call == hist'[Len(hist')]
             linked == AddSwitchLinksOp(topology, cfg, call.links)
         IN /\ call.op = "add_hosts" => topology' = topology
            /\ call.op = "build_topology" =>
                   /\ topology'.nodes = linked.nodes
                   /\ topology'.adj = linked.adj
                   /\ topology'.attr = linked.attr]_vars

C11_Witness ==
    /\ Len(hist) = 1
    /\ LastCall.op = "build_topology"
    /\ LastCall.links = LCycle
    /\ LastCall.devs = DOther
    /\ LastCall.devs.items # <<>>
    /\ Len(topology.nodes) = 3
    /\ Cardinality(EdgeSet(topology)) = 3

\* A request that failed: no connection, a status other than 200, or a
\* text that is not JSON.
Failed(resp) == resp.raised \/ resp.status_code # 200 \/ ~resp.parses

\* C12: fetch_json gives the no-data value on a connection failure, a
\* non-200 status and a JSON decode failure, and build_topology goes on:
\* when the links fetch fails the device feed is still ingested and
\* classified, when the device fetch fails the switch nodes and links of
\* the links feed are in the graph.
C12_FetchFailureIsNoData ==
    [][hist' # hist =>
         LET call == hist'[Len(hist')]
             lbad == Failed(call.link_resp)
             dbad == Failed(call.dev_resp)
             hosted == AddHostsOp(topology, cfg, call.dev_resp.body)
             linked == AddSwitchLinksOp(topology, cfg, call.link_resp.body)
         IN /\ lbad => call.links = NoFeed
            /\ dbad => call.devs = NoFeed
            /\ (lbad /\ ~dbad) => topology' = ClassifyOp(hosted)
            /\ (dbad /\ ~lbad) => topology' = ClassifyOp(linked)
            /\ (lbad /\ dbad) => topology' = ClassifyOp(topology)]_vars

C12_Witness ==
    /\ Len(hist) = 2
    /\ hist[1].dev_resp = NotJson
    /\ hist[1].link_resp.status_code = 200
    /\ hist[2].link_resp.status_code = 500
    /\ hist[2].dev_resp.body = DHosts
    /\ ~Failed(hist[2].dev_resp)
    /\ Len(topology.nodes) = 6

\* Whether the search from src to dst has no path to yield: a label is
\* not in the graph, or no path joins the two.
NoPathBetween(G, src, dst) ==
    \/ src \notin NodeSet(G)
    \/ dst \notin NodeSet(G)
    \/ HopCounts(G, src, dst) = {}

\* C13: find_shortest_path gives the failure result, and no path, when
\* the source is not in the graph, when the destination is not in the
\* graph, and when both are but no path joins them.
C13_NoPathIsFailure ==
    (ret.op = "find_shortest_path"
     /\ NoPathBetween(topology, ret.src, ret.dst)) =>
        /\ ~ret.value.ok
        /\ ret.value.paths = <<>>

C13_Witness ==
    /\ ret.op = "find_shortest_path"
    /\ ret.src \in NodeSet(topology)
    /\ ret.dst \in NodeSet(topology)
    /\ ret.src # ret.dst
    /\ ~ret.value.ok

\* C14: find_optimal_path returns the sentinel, having fetched no
\* telemetry, exactly when the shortest-path search yields no path; when
\* the search yields a path the list it returns is not empty.
C14_SentinelIffNoPath ==
    ret.op = "find_optimal_path" =>
        IF NoPathBetween(topology, ret.src, ret.dst)
        THEN /\ ret.value.status = "sentinel"
             /\ ret.value.fetched = <<>>
             /\ ret.value.used = 0
        ELSE /\ ret.value.status # "sentinel"
             /\ ret.value.status = "returned" => ret.value.paths # <<>>

C14_Witness ==
    /\ ret.op = "find_optimal_path"
    /\ ret.src \in NodeSet(topology)
    /\ ret.dst \in NodeSet(topology)
    /\ ret.src # ret.dst
    /\ ret.value.status = "sentinel"

\* C15: for a label of the graph, find_shortest_path from the label to
\* itself returns one path, the label alone.
C15_TrivialPath ==
    (/\ ret.op = "find_shortest_path"
     /\ ret.src = ret.dst
     /\ ret.src \in NodeSet(topology)) =>
        /\ ret.value.ok
        /\ ret.value.paths = << <<ret.src>> >>

C15_Witness ==
    /\ ret.op = "find_shortest_path"
    /\ ret.src = ret.dst
    /\ {ret.src} \in EdgeSet(topology)
    /\ Len(topology.adj[ret.src]) = 2
    /\ ret.value.paths = << <<ret.src>> >>

\* The graph of a build_topology step after its two ingestions, before
\* classification.
Ingested(G, c, call) ==
    AddHostsOp(AddSwitchLinksOp(G, c, call.links), c, call.devs)

\* C16: a node that has type switch after ingestion and whose label starts
\* with "d" still has type switch when build_topology finishes.
C16_SwitchNamedDKept ==
    [][(hist' # hist /\ hist'[Len(hist')].op = "build_topology") =>
         LET ing == Ingested(topology, cfg, hist'[Len(hist')])
         IN \A n \in NodeSet(ing) :
                (ing.type[n] = "switch" /\ n[1] = "d")
                    => topology'.type[n] = "switch"]_vars

\* The type the prefix rule gives a node of generic type.
ByPrefix(n, t) ==
    IF Len(n) >= 2 /\ n[1] = "a" /\ n[2] = "p" THEN "ap"
    ELSE IF Len(n) >= 3 /\ n[1] = "s" /\ n[2] = "t" /\ n[3] = "a" THEN "station"
    ELSE IF Len(n) >= 1 /\ n[1] = "d" THEN "dockerhost"
    ELSE t

\* C17: build_topology ingests the links, then the devices, then makes
\* one classification pass: a node of generic type (host, switch, unknown)
\* gets the type of the first prefix among "ap", "sta", "d" that its label
\* starts with, or keeps its type; any other node keeps its type; so a
\* switch relabelled "ap..." by dpid_map ends the build with type ap.
C17_BuildOrderAndPrefixes ==
    [][(hist' # hist /\ hist'[Len(hist')].op = "build_topology") =>
         \A ing \in {Ingested(topology, cfg, hist'[Len(hist')])},
            links \in {IngestedLinks(hist'[Len(hist')].links)} :
            /\ topology'.nodes = ing.nodes
            /\ topology'.adj = ing.adj
            /\ topology'.attr = ing.attr
            /\ \A n \in NodeSet(ing) :
                   topology'.type[n] =
                       IF ing.type[n] \in {"host", "switch", "unknown"}
                       THEN ByPrefix(n, ing.type[n])
                       ELSE ing.type[n]
            /\ \A i \in 1 .. Len(links) :
                   (/\ links[i].src \in DOMAIN cfg.dpid_map
                    /\ StartsWith(cfg.dpid_map[links[i].src], <<"a", "p">>)
                    /\ ing.type[cfg.dpid_map[links[i].src]] = "switch")
                       => topology'.type[cfg.dpid_map[links[i].src]] = "ap"]_vars

C17_Witness ==
    /\ hist # <<>>
    /\ LastCall.op = "build_topology"
    /\ LastCall.links = LCycle
    /\ LastCall.devs = DPrecedence
    /\ cfg = RichCfg
    /\ topology.type[cfg.dpid_map[<<"1">>]] = "ap"
    /\ topology.type[cfg.dpid_map[<<"3">>]] = "dockerhost"
    /\ topology.type[<<"s", "2">>] = "switch"
    /\ topology.type[<<"h", "5">>] = "host"
    /\ topology.type[cfg.stations_map[<<"7">>]] = "station"

\* The consecutive pairs of a path's interior nodes.
PairsOf(path) ==
    IF Len(path) < 4
    THEN <<>>
    ELSE [i \in 1 .. (Len(path) - 3) |-> <<path[i + 1], path[i + 2]>>]

\* Whether b is among a's entries of the adjacency index.
Resolved(mapping, pr) ==
    /\ pr[1] \in DOMAIN mapping
    /\ \E k \in 1 .. Len(mapping[pr[1]]) : mapping[pr[1]][k][1] = pr[2]

ResolvedPairs(mapping, path) ==
    SelectSeq(PairsOf(path), LAMBDA pr : Resolved(mapping, pr))

\* The resolved pairs of paths i, i + 1, ..., in order.
RECURSIVE ResolvedFrom(_, _, _)
ResolvedFrom(mapping, paths, i) ==
    IF i > Len(paths)
    THEN <<>>
    ELSE ResolvedPairs(mapping, paths[i]) \o ResolvedFrom(mapping, paths, i + 1)

\* The port of a's first entry for b.
EntryPort(mapping, pr) ==
    LET hits == {k \in 1 .. Len(mapping[pr[1]]) : mapping[pr[1]][k][1] = pr[2]}
        first == CHOOSE k \in hits : \A j \in hits : k <= j
    IN mapping[pr[1]][first][2]

\* The switch identifiers the controller reported in the feeds of a call.
ReportedIds(call) ==
    {call.links.items[i].src : i \in 1 .. Len(call.links.items)}
    \cup {call.links.items[i].dst : i \in 1 .. Len(call.links.items)}
    \cup UNION {{d.aps[k].switch : k \in 1 .. Len(d.aps)}
                \cup {d.aps[k].switchDPID : k \in 1 .. Len(d.aps)} :
                d \in {x \in Range(call.devs.items) : x.isDict}}

\* The identifiers the controller reported for the switch labelled a.
ControllerIds(call, c, a) ==
    {d \in ReportedIds(call) \ {<<>>} : RemapDpid(c, d) = a}

\* C18: find_optimal_path requests one telemetry URL for every resolved
\* pair (a, b) of every candidate path, and the URL names a by the
\* identifier the controller reported for it, with the port of a's entry
\* for b.
C18_UrlNamesControllerId ==
    (/\ ret.op = "find_optimal_path"
     /\ ret.value.status = "returned"
     /\ hist # <<>>) =>
        LET mapping == BuildSwitchMapping(topology)
            pairs == ResolvedFrom(mapping, ret.value.shortest, 1)
        IN /\ Len(ret.value.fetched) = Len(pairs)
           /\ \A k \in 1 .. Len(pairs) :
                  /\ ret.value.fetched[k].switch
                         \in ControllerIds(hist[1], cfg, pairs[k][1])
                  /\ ret.value.fetched[k].port = EntryPort(mapping, pairs[k])

\* The sum of the link costs of answers from + 1 .. from + n.
RECURSIVE CostOf(_, _, _)
CostOf(resp, from, n) ==
    IF n = 0
    THEN 0
    ELSE LET a == resp[from + n]
         IN CostOf(resp, from, n - 1)
            + (IF a.rx >= a.tx THEN a.rx - a.tx ELSE a.tx - a.rx)

\* C19: a pair of a candidate path that the adjacency index does not
\* resolve gets no telemetry URL and adds nothing to the path's cost; the
\* path's other pairs are still fetched and summed, and the path is still
\* compared with the others.
C19_UnresolvedPairSkipped ==
    (ret.op = "find_optimal_path" /\ ret.value.status = "returned") =>
        LET mapping == BuildSwitchMapping(topology)
            v == ret.value
            count == [i \in 1 .. Len(v.shortest) |->
                         Len(ResolvedPairs(mapping, v.shortest[i]))]
            before == [i \in 1 .. Len(v.shortest) |->
                          Len(ResolvedFrom(mapping,
                                           SubSeq(v.shortest, 1, i - 1), 1))]
        IN /\ Len(v.fetched) = Len(ResolvedFrom(mapping, v.shortest, 1))
           /\ Len(v.costs) = Len(v.shortest)
           /\ \A i \in 1 .. Len(v.shortest) :
                  /\ v.costs[i] = CostOf(ret.resp, before[i], count[i])
                  /\ v.costs[i] = MinOf(v.costs) => v.shortest[i] \in Range(v.paths)

C19_Witness ==
    /\ ret.op = "find_optimal_path"
    /\ ret.value.status = "returned"
    /\ \E i \in 1 .. Len(ret.value.shortest) :
           LET path == ret.value.shortest[i]
               pairs == PairsOf(path)
               mapping == BuildSwitchMapping(topology)
           IN /\ Len(pairs) = 3
              /\ ~Resolved(mapping, pairs[1])
              /\ Resolved(mapping, pairs[2])
              /\ Resolved(mapping, pairs[3])
              /\ ret.value.costs[i] = 150
              /\ path \in Range(ret.value.paths)

\* The edge insertions of a call, in the order the call makes them: the
\* pair of labels and the attributes given.
Insertions(c, call) ==
    LET links == IngestedLinks(call.links)
        devs == IngestedDevices(call.devs)
    IN [i \in 1 .. Len(links) |->
           [pair |-> {RemapDpid(c, links[i].src), RemapDpid(c, links[i].dst)},
            attrs |-> [src_port |-> links[i].sport,
                       dst_port |-> links[i].dport,
                       link_type |-> links[i].ltype,
                       direction |-> links[i].dir,
                       port |-> Absent]]]
       \o [i \in 1 .. Len(devs) |->
           [pair |-> {Expected(c, devs[i]).label, AttachedTo(c, devs[i])},
            attrs |-> [src_port |-> Absent, dst_port |-> Absent,
                       link_type |-> Absent, direction |-> Absent,
                       port |-> devs[i].aps[1].port]]]

\* C20: the graph holds one edge per unordered pair of labels, and after a
\* call the attributes of an edge the call inserted are exactly those of
\* the call's last insertion for that pair.
C20_LastWriteWins ==
    [][hist' # hist =>
         LET ins == Insertions(cfg, hist'[Len(hist')])
         IN /\ \A n \in NodeSet(topology') :
                /\ Cardinality(Range(topology'.adj[n]))
                       = Len(topology'.adj[n])
                /\ \A w \in Range(topology'.adj[n]) :
                       {n, w} \in EdgeSet(topology')
            /\ \A i \in 1 .. Len(ins) :
                   (\A j \in (i + 1) .. Len(ins) : ins[j].pair # ins[i].pair)
                       => topology'.attr[ins[i].pair] = ins[i].attrs]_vars

\* C21: one find_optimal_path call fetches telemetry path by path in
\* enumeration order and pair by pair in path order, once per resolved
\* pair per candidate path (a pair shared by k paths k times); each path
\* is costed with the answers to its own fetches, and the call fetches
\* nothing after a fetch that fails.
C21_FetchesSerialAndFresh ==
    (ret.op = "find_optimal_path" /\ ret.value.status # "sentinel") =>
        \A mapping \in {BuildSwitchMapping(topology)} :
            LET v == ret.value
                pairs == ResolvedFrom(mapping, v.shortest, 1)
                want == [k \in 1 .. Len(pairs) |->
                            [switch |-> SubSeq(pairs[k][1], 2,
                                               Len(pairs[k][1])),
                             port |-> EntryPort(mapping, pairs[k])]]
                n == Len(v.fetched)
            IN /\ v.used = n
               /\ n <= Len(want)
               /\ v.fetched = SubSeq(want, 1, n)
               /\ \A k \in 1 .. n : ret.resp[k].ok <=> (k < n \/ v.status = "returned")
               /\ v.status = "returned" =>
                      /\ n = Len(want)
                      /\ \A i \in 1 .. Len(v.shortest) :
                             v.costs[i] =
                                 CostOf(ret.resp,
                                        Len(ResolvedFrom(
                                                mapping,
                                                SubSeq(v.shortest, 1, i - 1), 1)),
                                        Len(ResolvedPairs(mapping, v.shortest[i])))

C21_Witness ==
    /\ ret.op = "find_optimal_path"
    /\ ret.value.status = "returned"
    /\ Len(ret.value.shortest) = 2
    /\ Len(ret.value.fetched) = 6
    /\ ret.value.fetched[3] = ret.value.fetched[6]
    /\ ret.resp[1] = ret.resp[4]
    /\ ret.resp[2] = ret.resp[5]
    /\ ret.resp[3] # ret.resp[6]
    /\ ret.value.costs[1] # ret.value.costs[2]

Reads == {"find_shortest_path", "build_switch_mapping", "find_optimal_path"}

\* C22: a call of find_shortest_path, build_switch_mapping or
\* find_optimal_path leaves the nodes, their types, the edges and their
\* attributes as they were, and no step changes the three remap tables.
C22_ReadsChangeNothing ==
    [][/\ cfg' = cfg
       /\ (ret' # ret /\ ret'.op \in Reads) =>
              /\ topology'.nodes = topology.nodes
              /\ topology'.type = topology.type
              /\ EdgeSet(topology') = EdgeSet(topology)
              /\ topology'.attr = topology.attr]_vars

C22_Witness ==
    /\ ret.op = "find_optimal_path"
    /\ ret.value.status = "raised"
    /\ Len(ret.value.fetched) = 4
    /\ cfg = RichCfg
    /\ hist[1].links = LTie
    /\ topology = BuildTopologyOp(EmptyGraph, cfg, hist[1].links, hist[1].devs)

NodeTypes == {"switch", "host", "ap", "station", "dockerhost", "unknown"}

\* C23: every node of the graph has a type among switch, host, ap,
\* station, dockerhost, unknown, and no step changes a type other than
\* unknown to unknown.
C23_TypeNeverUnknownAgain ==
    [][\A n \in NodeSet(topology') :
           /\ n \in DOMAIN topology'.type
           /\ topology'.type[n] \in NodeTypes
           /\ (n \in NodeSet(topology) /\ topology.type[n] # "unknown")
                  => topology'.type[n] # "unknown"]_vars

C23_Witness ==
    /\ Len(hist) = 2
    /\ hist[1].op = "build_topology"
    /\ hist[2].op = "classify_nodes"
    /\ {topology.type[n] : n \in NodeSet(topology)}
           = {"switch", "host", "ap", "station", "dockerhost"}

\* C24: when there is a shortest path and every telemetry fetch succeeds,
\* find_optimal_path returns a non-empty list of paths, each a path of
\* least hop count from src to dst, none twice.
C24_ReturnsShortestPaths ==
    (/\ ret.op = "find_optimal_path"
     /\ ~NoPathBetween(topology, ret.src, ret.dst)
     /\ \A k \in 1 .. Len(ret.resp) : ret.resp[k].ok) =>
        LET hops == HopCounts(topology, ret.src, ret.dst)
            least == CHOOSE k \in hops : \A j \in hops : k <= j
            paths == ret.value.paths
        IN /\ ret.value.status = "returned"
           /\ paths # <<>>
           /\ \A i \in 1 .. Len(paths) :
                  /\ paths[i] \in SimplePaths(topology, ret.src, least)
                  /\ Len(paths[i]) = least + 1
                  /\ paths[i][1] = ret.src
                  /\ paths[i][Len(paths[i])] = ret.dst
                  /\ \A j \in 1 .. Len(paths) : paths[j] = paths[i] => j = i

C24_Witness ==
    /\ ret.op = "find_optimal_path"
    /\ Len(ret.resp) = 6
    /\ \A k \in 1 .. 6 : ret.resp[k].ok
    /\ Len(ret.value.paths) = 2
    /\ ret.value.costs = <<250, 250>>

\* The neighbours listed under key a of an adjacency index, in order.
NeighboursOf(mapping, a) == [k \in 1 .. Len(mapping[a]) |-> mapping[a][k][1]]

\* C25: in every index build_switch_mapping returns, a has an entry for b
\* iff b has one for a, no key lists a neighbour twice, and every key and
\* neighbour is a node of type switch joined to the other by an edge.
C25_IndexSymmetricUnique ==
    ret.op = "build_switch_mapping" =>
        LET mapping == ret.value
        IN \A a \in DOMAIN mapping :
               LET nbrs == NeighboursOf(mapping, a)
               IN /\ a \in NodeSet(topology)
                  /\ topology.type[a] = "switch"
                  /\ Cardinality(Range(nbrs)) = Len(nbrs)
                  /\ \A b \in Range(nbrs) :
                         /\ b \in NodeSet(topology)
                         /\ topology.type[b] = "switch"
                         /\ {a, b} \in EdgeSet(topology)
                         /\ b \in DOMAIN mapping
                         /\ a \in Range(NeighboursOf(mapping, b))

\* The consecutive pairs of path[1:-1] whose two nodes both have type
\* switch in G.
SwitchPairs(G, path) ==
    SelectSeq(PairsOf(path),
              LAMBDA pr : G.type[pr[1]] = "switch" /\ G.type[pr[2]] = "switch")

RECURSIVE SwitchPairsFrom(_, _, _)
SwitchPairsFrom(G, paths, i) ==
    IF i > Len(paths)
    THEN <<>>
    ELSE SwitchPairs(G, paths[i]) \o SwitchPairsFrom(G, paths, i + 1)

\* C26: an edge with an endpoint of non-switch type has no entry in the
\* adjacency index; find_optimal_path fetches telemetry only for the pairs
\* of switch-typed nodes, and a path with no such pair (one with fewer than
\* two interior nodes among them) costs zero.
C26_NonSwitchLinkCostsZero ==
    /\ ret.op = "build_switch_mapping" =>
           \A e \in EdgeSet(topology) : \A u \in e, w \in e :
               (topology.type[u] # "switch" \/ topology.type[w] # "switch") =>
                   /\ u \notin DOMAIN ret.value
                      \/ w \notin Range(NeighboursOf(ret.value, u))
    /\ (ret.op = "find_optimal_path" /\ ret.value.status # "sentinel") =>
           LET v == ret.value
               pairs == SwitchPairsFrom(topology, v.shortest, 1)
               n == Len(v.fetched)
           IN /\ n <= Len(pairs)
              /\ \A k \in 1 .. n :
                     v.fetched[k].switch = StripFirst(pairs[k][1])
              /\ v.status = "returned" => n = Len(pairs)
              /\ \A i \in 1 .. Len(v.costs) :
                     SwitchPairs(topology, v.shortest[i]) = <<>>
                         => v.costs[i] = 0
              /\ \A i \in 1 .. Len(v.shortest) :
                     Len(v.shortest[i]) < 4
                         => SwitchPairs(topology, v.shortest[i]) = <<>>

C26_Witness ==
    /\ ret.op = "find_optimal_path"
    /\ ret.value.status = "returned"
    /\ ret.value.fetched = <<>>
    /\ ret.value.costs = <<0>>
    /\ \E pr \in Range(PairsOf(ret.value.shortest[1])) :
           /\ topology.type[pr[1]] = "ap"
           /\ topology.type[pr[2]] = "switch"
           /\ topology.attr[{pr[1], pr[2]}].src_port # Absent

\* C27: a build_topology call with the feeds of the build_topology call
\* before it leaves the node set, every node's type, the edge set and the
\* edge attributes as that call left them.
C27_BuildIdempotent ==
    [][(/\ hist # <<>>
        /\ LastCall.op = "build_topology"
        /\ hist' = Append(hist, LastCall)) =>
           /\ topology'.nodes = topology.nodes
           /\ topology'.type = topology.type
           /\ EdgeSet(topology') = EdgeSet(topology)
           /\ topology'.attr = topology.attr]_vars

C27_Witness ==
    /\ Len(hist) = 2
    /\ hist[1].op = "build_topology"
    /\ hist[2] = hist[1]
    /\ hist[1].links = LCycle
    /\ hist[1].devs = DPrecedence
    /\ {topology.type[n] : n \in NodeSet(topology)}
           = {"switch", "host", "ap", "station", "dockerhost"}

====
